---------------------------- MODULE Spec2Model ----------------------------
(***************************************************************************)
(* A model of the openlibrary-nyt-bot scripts:                             *)
(*   - add_nyt_bestseller_tag.py  (AddNytBestsellerJob, the tag bot)       *)
(*   - add_nyt_review_link.py     (AddNytReviewJob, the review-link bot)   *)
(*   - nyt_bestseller_collector.py (the weekly overview collector)         *)
(*   - main.py                    (the bestseller-history selector)        *)
(* Python strings are TLA+ strings; TLC evaluates Len, SubSeq and \o on    *)
(* them, so startswith / replace / format are computed character by        *)
(* character.                                                              *)
(***************************************************************************)
EXTENDS Integers, Sequences, FiniteSets, TLC

VARIABLES
  \* ---- the two tagger bots (one of them runs, chosen in Init) ----
  job,          \* which bot runs: "AddNytBestseller" or "AddNytReviewJob"
  dry_run,      \* self.dry_run
  todo,         \* number of items of the input file not yet iterated over
  new_tags,     \* the tag bot's new_tags of the current group (<<>> before the first)
  works,        \* the catalog: olid -> stored work record
  job_results,  \* the job_results dict
  result_file,  \* <<>> while no result file was written, else <<its content>>
  pc,           \* "idle" | "running" | "done" | "interrupted" | "crashed"
  last,         \* what the last loop iteration did (for stating properties)
  \* ---- the collector ----
  current_date, date_end, outputs, reviews, seen_isbns, cpc, disk, clast,
  all_reviews,  \* history: every review URL seen so far, per ISBN
  retries,      \* make_api_request's retries argument of the current call
  issued,       \* requests.get calls the current make_api_request has made
  status,       \* r.status_code of its last response (0: none yet)
  \* ---- the history selector ----
  response_json, selected, hpc

botVars  == <<job, dry_run, todo, new_tags, works, job_results,
              result_file, pc, last>>
collVars == <<current_date, date_end, outputs, reviews, seen_isbns, cpc, disk,
              clast, all_reviews, retries, issued, status>>
histVars == <<response_json, selected, hpc>>
vars     == <<botVars, collVars, histVars>>

---------------------------------------------------------------------------
(* Bounds of the model *)

MaxBooks   == 3   \* ISBNs in the tag bot's input file
MaxReviews == 2   \* review records in the review-link bot's input file
MaxWeeks   == 2   \* weekly overviews one collector run fetches
MaxHistory == 3   \* entries of a book's ranks_history

---------------------------------------------------------------------------
(* Python string and list helpers *)

\* str.startswith(p)
StartsWith(s, p) == Len(p) <= Len(s) /\ SubSeq(s, 1, Len(p)) = p

\* str.replace(old, new): every non-overlapping occurrence, left to right
RECURSIVE Replace(_, _, _)
Replace(s, old, new) ==
  IF Len(s) = 0 THEN s
  ELSE IF StartsWith(s, old)
       THEN new \o Replace(SubSeq(s, Len(old) + 1, Len(s)), old, new)
       ELSE SubSeq(s, 1, 1) \o Replace(SubSeq(s, 2, Len(s)), old, new)

\* An attribute of a catalog object that may not exist (AttributeError on access)
Attr(v)  == [present |-> TRUE, value |-> v]
NoAttr   == [present |-> FALSE, value |-> <<>>]

---------------------------------------------------------------------------
(* The catalog the bots talk to (olclient: Edition.get, work.save) *)

ISBN_W1a     == "9780735211292"   \* an edition of work OL1W
ISBN_W1b     == "9780399592522"   \* another edition of the same work OL1W
ISBN_W2      == "9780140063134"   \* an edition of work OL2W
ISBN_NoWork  == "9780385544184"   \* an edition whose .work is empty
ISBN_Missing == "9780525639367"   \* no edition in the catalog
ISBNS == {ISBN_W1a, ISBN_W1b, ISBN_W2, ISBN_NoWork, ISBN_Missing}
OLIDS == {"OL1W", "OL2W"}

\* self.ol.Edition.get(isbn=...): None, or an edition with its work's olid ("" = no work)
EditionGet(isbn) ==
  CASE isbn = ISBN_W1a -> [found |-> TRUE, work |-> "OL1W"]
    [] isbn = ISBN_W1b -> [found |-> TRUE, work |-> "OL1W"]
    [] isbn = ISBN_W2 -> [found |-> TRUE, work |-> "OL2W"]
    [] isbn = ISBN_NoWork -> [found |-> TRUE, work |-> ""]
    [] OTHER -> [found |-> FALSE, work |-> ""]

\* Network faults an iteration may meet, and the places an interrupt may arrive
FAULTS == {"none", "lookup", "save", "import"}
INTERRUPTS == {"none", "lookup", "addtag", "postcall"}
\* <<fault, interrupt>> of one iteration.  Left out are only the pairs that
\* act as another pair does: a lookup or save fault raises before the
\* "postcall" point is reached, an interrupt during the lookup comes before
\* any fault, and "addtag" lies on the path of a found work only.
ENV == {e \in FAULTS \X INTERRUPTS :
          \/ e[1] = "none"
          \/ e[2] = "none"
          \/ e = <<"save", "addtag">>
          \/ e = <<"import", "postcall">>}
TAG_ENV == {e \in ENV : e[2] # "addtag"}

NoWorkRecord == [olid |-> "", subjects |-> NoAttr, links |-> NoAttr]

---------------------------------------------------------------------------
(* add_nyt_bestseller_tag.py *)

NYT_TAG_PREFIX     == "nyt:"
NYT_TAG_BESTSELLER == "New York Times bestseller"

\* new_tags of __process_bestseller_group_record
NewTags(list_name_encoded, published_date) ==
  << NYT_TAG_PREFIX \o list_name_encoded \o "=" \o published_date,
     NYT_TAG_BESTSELLER >>

\* A variant that recognises the 'nyt:' prefix only
NeedToAddPrefixOnly(work) ==
  IF ~work.subjects.present THEN TRUE
  ELSE ~ \E i \in 1..Len(work.subjects.value) :
           StartsWith(work.subjects.value[i], NYT_TAG_PREFIX)

\* __need_to_add_nyt_bestseller_tag
NeedToAddNytBestsellerTag(work) ==
  IF ~work.subjects.present THEN TRUE          \* except AttributeError
  ELSE ~ \E i \in 1..Len(work.subjects.value) :
           \/ StartsWith(work.subjects.value[i], NYT_TAG_PREFIX)
           \/ StartsWith(work.subjects.value[i], NYT_TAG_BESTSELLER)

\* __add_tags
AddTags(work, tags) ==
  IF work.subjects.present
  THEN [work EXCEPT !.subjects = Attr(work.subjects.value \o tags)]
  ELSE [work EXCEPT !.subjects = Attr(tags)]     \* except AttributeError

TagResults0(total) ==
  [total_books_to_process |-> total, total_books_processed |-> 0,
   books_imported |-> 0, books_imported_isbns |-> <<>>,
   tags_added |-> 0, tags_already_exist |-> 0, isbns_failed |-> 0]

Bump(r, f) == [r EXCEPT ![f] = @ + 1]

\* One pass of the body of the for loop of __process_bestseller_group_record
\* (lines 100-120) for one ISBN.  fault: the network fault met; intr: where
\* SIGINT (handler: exit(0), i.e. SystemExit) arrives inside the try, if at all.
\* Yields the new counters, the catalog, the in-memory work before and after
\* the merge, the mutating network calls issued and the exception that ended
\* the try block.
TagTry(isbn, tags, fault, intr, res, cat, dry) ==
  LET ed     == EditionGet(isbn)
      before == IF ed.found /\ ed.work # "" THEN cat[ed.work] ELSE NoWorkRecord
      base   == [results |-> res, works |-> cat, before |-> before,
                 after |-> before, calls |-> <<>>, merged |-> FALSE,
                 exc |-> "none", path |-> "none"]
  IN
  IF intr = "lookup" THEN [base EXCEPT !.exc = "SystemExit", !.path = "lookup"]
  ELSE IF fault = "lookup" THEN [base EXCEPT !.exc = "Exception", !.path = "lookup"]
  ELSE IF ed.found THEN
    \* __process_found_bestseller_edition
    IF ed.work = "" THEN [base EXCEPT !.exc = "Exception", !.path = "no_work"]
    ELSE IF NeedToAddNytBestsellerTag(before) THEN
      LET work == AddTags(before, tags)
          call == [op |-> "save", target |-> ed.work, body |-> work,
                   failed |-> (fault = "save")]
          made == IF dry THEN <<>> ELSE <<call>>   \* self.save(lambda: work.save(...))
          m    == [base EXCEPT !.after = work, !.merged = TRUE, !.calls = made,
                               !.path = "need"]
      IN IF ~dry /\ fault = "save" THEN [m EXCEPT !.exc = "Exception"]
         ELSE LET saved == [m EXCEPT !.works =
                              IF dry THEN cat ELSE [cat EXCEPT ![ed.work] = work]]
              IN IF intr = "postcall" THEN [saved EXCEPT !.exc = "SystemExit"]
                 ELSE [saved EXCEPT !.results = Bump(res, "tags_added")]
    ELSE IF intr = "postcall"
         THEN [base EXCEPT !.exc = "SystemExit", !.path = "exists"]
         ELSE [base EXCEPT !.results = Bump(res, "tags_already_exist"),
                           !.path = "exists"]
  ELSE
    \* __request_book_import_by_isbn: a failing request is caught and logged
    LET made == IF dry THEN <<>>
                ELSE <<[op |-> "import", target |-> isbn, body |-> NoWorkRecord,
                        failed |-> (fault = "import")]>>
        m    == [base EXCEPT !.calls = made, !.path = "import"]
    IN IF intr = "postcall" THEN [m EXCEPT !.exc = "SystemExit"]
       ELSE [m EXCEPT !.results =
               [Bump(res, "books_imported") EXCEPT
                  !.books_imported_isbns = Append(@, isbn)]]

\* A variant whose handler for a failing item leaves total_books_processed alone
TagHandlersFailedUncounted(t) ==
  IF t.exc = "none"
  THEN [t EXCEPT !.results = Bump(t.results, "total_books_processed")]
  ELSE [t EXCEPT !.results = Bump(t.results, "isbns_failed")]

\* The except clauses and the statements after the try (lines 110-120)
TagHandlers(t) ==
  IF t.exc = "SystemExit"
  THEN [t EXCEPT !.results = Bump(t.results, "isbns_failed")]
  ELSE IF t.exc = "Exception"
  THEN [t EXCEPT !.results =
          Bump(Bump(t.results, "isbns_failed"), "total_books_processed")]
  ELSE [t EXCEPT !.results = Bump(t.results, "total_books_processed")]

LIST_NAMES == {"business-books", "hardcover-fiction"}
PUBLISHED_DATES == {"2020-07-12"}

\* Subject lists a work may carry before the run
SUBJECTS0 ==
  { NoAttr, Attr(<<>>), Attr(<<"Fiction">>),
    Attr(<<"Fiction", "nyt:hardcover-fiction=2019-01-06">>),
    Attr(<<"New York Times bestseller list", "Fiction">>),
    Attr(<<"ny", "New York Times reviewed">>) }


Last0 == [isbn |-> "", results_before |-> <<>>, t |-> <<>>, kind |-> "none"]

\* run (lines 122-139): the input file is read and the counters initialised.
\* total_books is the number of ISBNs of all groups; which ISBNs they are and
\* where one group ends and the next begins is drawn as the loop reaches them.
TagInit ==
  /\ job = "AddNytBestseller"
  /\ dry_run \in BOOLEAN
  /\ todo \in 0..MaxBooks
  /\ new_tags = <<>>
  /\ \E s1 \in SUBJECTS0 :
        works = [o \in OLIDS |->
                   [olid |-> o, subjects |-> IF o = "OL1W" THEN s1 ELSE NoAttr,
                    links |-> NoAttr]]
  /\ job_results = TagResults0(todo)
  /\ result_file = <<>>
  /\ pc = "running"
  /\ last = Last0

\* Entering __process_bestseller_group_record for the next group (lines 95-99);
\* the previous group, possibly empty, has been iterated over
TagStartGroup ==
  /\ job = "AddNytBestseller" /\ pc = "running"
  /\ \E n \in LIST_NAMES, d \in PUBLISHED_DATES : new_tags' = NewTags(n, d)
  /\ UNCHANGED <<job, dry_run, todo, works, job_results, result_file, pc, last>>
  /\ UNCHANGED <<collVars, histVars>>

\* One iteration of the loop over the group's ISBNs (lines 100-120)
TagProcessIsbn ==
  /\ job = "AddNytBestseller" /\ pc = "running"
  /\ new_tags # <<>> /\ todo > 0
  /\ \E isbn \in ISBNS, e \in TAG_ENV :
       LET t == TagHandlers(TagTry(isbn, new_tags, e[1], e[2], job_results,
                                   works, dry_run))
       IN /\ job_results' = t.results
          /\ works' = t.works
          /\ last' = [isbn |-> isbn, results_before |-> job_results, t |-> t,
                      kind |-> "item"]
          /\ IF t.exc = "SystemExit"
             THEN /\ result_file' = <<t.results>>    \* __save_job_results; raise
                  /\ pc' = "interrupted"
                  /\ todo' = todo
             ELSE /\ UNCHANGED <<result_file, pc>>
                  /\ todo' = todo - 1
  /\ UNCHANGED <<job, dry_run, new_tags>>
  /\ UNCHANGED <<collVars, histVars>>

\* run, line 143: all groups are done, the results are written
TagFinish ==
  /\ job = "AddNytBestseller" /\ pc = "running"
  /\ todo = 0
  /\ result_file' = <<job_results>>
  /\ pc' = "done"
  /\ UNCHANGED <<job, dry_run, todo, new_tags, works, job_results, last>>
  /\ UNCHANGED <<collVars, histVars>>

\* SIGINT arriving while run executes a statement outside the try blocks (the
\* counter update and progress bar of lines 118-120, the loop headers, the
\* computation of new_tags): exit(0) raises SystemExit, which no handler on
\* the way out of run catches (line 161 catches Exception only).
SigintOutsideTry ==
  /\ pc = "running"
  /\ pc' = "interrupted"
  /\ UNCHANGED <<job, dry_run, todo, new_tags, works, job_results,
                 result_file, last>>
  /\ UNCHANGED <<collVars, histVars>>

---------------------------------------------------------------------------
(* add_nyt_review_link.py *)

URL_STARTS_WITH          == "http"
NYT_REVIEW_DEFAULT_TITLE == "New York Times review"
NYT_TAG_REVIEWED         == "New York Times reviewed"
OL_LINK_TYPE_KEY_VALUE   == "/type/link"

\* new_link of __process_review_record (lines 154-160)
LinkStruct(url) ==
  [url |-> url, title |-> NYT_REVIEW_DEFAULT_TITLE,
   type |-> [key |-> OL_LINK_TYPE_KEY_VALUE]]

\* lnk.get('url', default)
GetUrl(lnk, default) == IF "url" \in DOMAIN lnk THEN lnk.url ELSE default

\* __need_to_add_nyt_review_link
NeedToAddNytReviewLink(work, link) ==
  IF ~work.links.present THEN TRUE               \* except AttributeError
  ELSE ~ \E i \in 1..Len(work.links.value) :
           StartsWith(GetUrl(work.links.value[i], ""), link)

\* A variant that rewrites every http version of the new link, not the first only
AddLinkRewriteAll(work, link_struct) ==
  IF ~work.links.present
  THEN [work EXCEPT !.links = Attr(<<link_struct>>)]
  ELSE LET ls   == work.links.value
           http == Replace(link_struct.url, "https://", "http://")
           hits == {i \in 1..Len(ls) : "url" \in DOMAIN ls[i] /\ ls[i].url = http}
       IN IF hits # {}
          THEN [work EXCEPT !.links = Attr([i \in 1..Len(ls) |->
                   IF i \in hits THEN [ls[i] EXCEPT !.url = link_struct.url]
                   ELSE ls[i]])]
          ELSE [work EXCEPT !.links = Attr(Append(ls, link_struct))]

\* __add_link: the first link whose url is the http version of the new one is
\* rewritten (lnk.get('url') is None for a link without url); else append
AddLink(work, link_struct) ==
  IF ~work.links.present
  THEN [work EXCEPT !.links = Attr(<<link_struct>>)]   \* except AttributeError
  ELSE LET ls   == work.links.value
           http == Replace(link_struct.url, "https://", "http://")
           hits == {i \in 1..Len(ls) : "url" \in DOMAIN ls[i] /\ ls[i].url = http}
       IN IF hits # {}
          THEN LET k == CHOOSE i \in hits : \A j \in hits : i <= j
               IN [work EXCEPT !.links =
                     Attr([ls EXCEPT ![k] = [@ EXCEPT !.url = link_struct.url]])]
          ELSE [work EXCEPT !.links = Attr(Append(ls, link_struct))]

\* __add_bestseller_review_tag; its bare except also catches the SystemExit
\* of an interrupt arriving inside its try (swallowed)
AddBestsellerReviewTag(work, subject_to_add, res, interrupted) ==
  IF interrupted \/ ~work.subjects.present
  THEN [work |-> [work EXCEPT !.subjects = Attr(<<subject_to_add>>)],
        results |-> Bump(res, "subjects_added")]
  ELSE IF \E i \in 1..Len(work.subjects.value) :
            work.subjects.value[i] = subject_to_add
  THEN [work |-> work, results |-> Bump(res, "subjects_already_exist")]
  ELSE [work |-> [work EXCEPT !.subjects = Attr(Append(work.subjects.value,
                                                       subject_to_add))],
        results |-> Bump(res, "subjects_added")]

\* __parse_review_record
ParseReviewRecord(review_record) ==
  IF Len(review_record) # 2
  THEN [ok |-> FALSE, url |-> "", isbn |-> ""]
  ELSE LET urls == {i \in 1..2 : StartsWith(review_record[i], URL_STARTS_WITH)}
       IN IF urls = {} THEN [ok |-> FALSE, url |-> "", isbn |-> ""]
          ELSE LET k == CHOOSE i \in urls : \A j \in urls : i <= j
               IN [ok |-> TRUE, url |-> review_record[k],
                   isbn |-> review_record[3 - k]]

ReviewResults0 ==
  [books_imported |-> 0, links_added |-> 0, links_already_exist |-> 0,
   isbns_failed |-> 0, subjects_added |-> 0, subjects_already_exist |-> 0]

\* The try block of __process_review_record (lines 161-173) for a parsed record.
\* callable: whether the value work.save(comment) returned can be called, which
\* self.save(workSaveClosure) does when dry_run is false (olclient decides; a
\* requests response is not callable and the call raises TypeError).
ReviewTry(url, isbn, fault, intr, callable, res, cat, dry) ==
  LET ed      == EditionGet(isbn)
      fetched == IF ed.found /\ ed.work # "" THEN cat[ed.work] ELSE NoWorkRecord
      base    == [results |-> res, works |-> cat, fetched |-> fetched,
                  before |-> fetched, after |-> fetched, calls |-> <<>>,
                  merged |-> FALSE, exc |-> "none", path |-> "none", url |-> url]
  IN
  IF intr = "lookup" THEN [base EXCEPT !.exc = "SystemExit", !.path = "lookup"]
  ELSE IF fault = "lookup" THEN [base EXCEPT !.exc = "Exception", !.path = "lookup"]
  ELSE IF ed.found THEN
    \* __process_found_bestseller_edition
    IF ed.work = "" THEN [base EXCEPT !.exc = "Exception", !.path = "no_work"]
    ELSE
      LET tagged == AddBestsellerReviewTag(fetched, NYT_TAG_REVIEWED, res,
                                           intr = "addtag")
          \* line 110: work.save(comment) is called here, whatever dry_run is
          call   == [op |-> "save", target |-> ed.work, body |-> tagged.work,
                     failed |-> (fault = "save")]
          s      == [base EXCEPT !.results = tagged.results,
                                 !.before = tagged.work, !.after = tagged.work,
                                 !.calls = <<call>>, !.path = "save"]
      IN IF fault = "save" THEN [s EXCEPT !.exc = "Exception"]
         ELSE
           LET need   == NeedToAddNytReviewLink(tagged.work, url)
               work   == IF need THEN AddLink(tagged.work, LinkStruct(url))
                         ELSE tagged.work
               m      == [s EXCEPT !.works = [cat EXCEPT ![ed.work] = tagged.work],
                                   !.after = work, !.merged = TRUE,
                                   !.path = IF need THEN "need" ELSE "exists"]
           IN IF ~dry /\ ~callable THEN [m EXCEPT !.exc = "Exception"]
              ELSE IF intr = "postcall" THEN [m EXCEPT !.exc = "SystemExit"]
              ELSE [m EXCEPT !.results =
                      Bump(tagged.results,
                           IF need THEN "links_added" ELSE "links_already_exist")]
  ELSE
    \* __request_book_import_by_isbn: a failing request is caught and logged
    LET made == IF dry THEN <<>>
                ELSE <<[op |-> "import", target |-> isbn, body |-> NoWorkRecord,
                        failed |-> (fault = "import")]>>
        m    == [base EXCEPT !.calls = made, !.path = "import"]
    IN IF intr = "postcall" THEN [m EXCEPT !.exc = "SystemExit"]
       ELSE [m EXCEPT !.results = Bump(res, "books_imported")]

\* The except clauses of __process_review_record (lines 174-183)
ReviewHandlers(t) ==
  IF t.exc \in {"SystemExit", "Exception"}
  THEN [t EXCEPT !.results = Bump(t.results, "isbns_failed")]
  ELSE t

HTTPS_A  == "https://nyt.com/a"
HTTP_A   == "http://nyt.com/a"
HTTPS_A2 == "https://nyt.com/a?smid=tw"         \* starts with HTTPS_A
HTTPS_R  == "https://nyt.com/r?u=https://b"     \* holds https:// twice
HTTP_R   == "http://nyt.com/r?u=https://b"      \* HTTPS_R with the scheme changed
REVIEW_URLS == {HTTPS_A, HTTP_A, HTTPS_R}

\* Records of the input file: [url, isbn], [isbn, url], and malformed ones
REVIEW_RECORDS ==
  {<<u, ISBN_W1a>> : u \in REVIEW_URLS}
    \cup { <<ISBN_W1a, HTTPS_A>>, <<HTTPS_A, ISBN_NoWork>>, <<HTTP_A, ISBN_Missing>> }
    \cup { <<HTTPS_A>>, <<HTTPS_A, ISBN_W1a, "x">>, <<ISBN_W1a, ISBN_W2>> }

Link(url, title) == [url |-> url, title |-> title,
                     type |-> [key |-> OL_LINK_TYPE_KEY_VALUE]]

\* Link lists a work may carry before the run
LINKS0 ==
  { NoAttr, Attr(<<>>),
    Attr(<<Link(HTTP_A, "NYT")>>),
    Attr(<<Link(HTTPS_A2, "NYT")>>),
    Attr(<<Link("https://example.org/", "Home"), Link(HTTP_A, "NYT"),
           Link(HTTP_A, "NYT again")>>),
    Attr(<<Link(HTTP_A, "NYT"), Link(HTTPS_A, NYT_REVIEW_DEFAULT_TITLE)>>),
    Attr(<<[title |-> "no url"], Link(HTTP_R, "NYT")>>) }

\* run (lines 185-195)
ReviewInit ==
  /\ job = "AddNytReviewJob"
  /\ dry_run \in BOOLEAN
  /\ todo \in 0..MaxReviews
  /\ new_tags = <<>>
  /\ \E l1 \in LINKS0, s1 \in {NoAttr, Attr(<<"Fiction">>)} :
        works = [o \in OLIDS |->
                   [olid |-> o,
                    subjects |-> IF o = "OL1W" THEN s1 ELSE Attr(<<NYT_TAG_REVIEWED>>),
                    links |-> IF o = "OL1W" THEN l1 ELSE NoAttr]]
  /\ job_results = ReviewResults0
  /\ result_file = <<>>
  /\ pc = "running"
  /\ last = Last0

\* One iteration of run's loop (lines 196-197): __process_review_record
ReviewProcessRecord ==
  /\ job = "AddNytReviewJob" /\ pc = "running"
  /\ todo > 0
  /\ \E rec \in REVIEW_RECORDS, e \in ENV,
        callable \in (IF dry_run THEN {FALSE} ELSE BOOLEAN) :
       LET parsed == ParseReviewRecord(rec)
       IN IF ~parsed.ok
          THEN \* line 157 is outside the try: the exception leaves run
               /\ pc' = "crashed"
               /\ last' = [isbn |-> "", results_before |-> job_results,
                           t |-> <<>>, kind |-> "malformed"]
               /\ UNCHANGED <<todo, works, job_results, result_file>>
          ELSE LET t == ReviewHandlers(ReviewTry(parsed.url, parsed.isbn, e[1],
                                  e[2], callable, job_results, works, dry_run))
               IN /\ job_results' = t.results
                  /\ works' = t.works
                  /\ last' = [isbn |-> parsed.isbn, results_before |-> job_results,
                              t |-> t, kind |-> "item"]
                  /\ IF t.exc = "SystemExit"
                     THEN /\ result_file' = <<t.results>>  \* __save_job_results; raise
                          /\ pc' = "interrupted"
                          /\ todo' = todo
                     ELSE /\ UNCHANGED <<result_file, pc>>
                          /\ todo' = todo - 1
  /\ UNCHANGED <<job, dry_run, new_tags>>
  /\ UNCHANGED <<collVars, histVars>>

\* run, line 198
ReviewFinish ==
  /\ job = "AddNytReviewJob" /\ pc = "running"
  /\ todo = 0
  /\ result_file' = <<job_results>>
  /\ pc' = "done"
  /\ UNCHANGED <<job, dry_run, todo, new_tags, works, job_results, last>>
  /\ UNCHANGED <<collVars, histVars>>

---------------------------------------------------------------------------
(* nyt_bestseller_collector.py *)

\* Python dicts are functions; dict.update(other)
EmptyDict == [k \in {} |-> {}]
DictUpdate(d, other) ==
  [k \in DOMAIN d \cup DOMAIN other |-> IF k \in DOMAIN other THEN other[k] ELSE d[k]]

\* A variant with the monthly quirk normalised away
FirstTimeOnListWeeksOne(list, book) == book.weeks_on_list = 1

\* first_time_on_list; any other cadence falls off the end (None, falsy)
FirstTimeOnList(list, book) ==
  IF list.updated = "WEEKLY" THEN book.weeks_on_list = 1
  ELSE IF list.updated = "MONTHLY" THEN book.weeks_on_list = 0
  ELSE FALSE

\* lines 75-76 and 46-47: isbn 13 if it has 13 characters, else isbn 10
BookIsbn(book) ==
  IF Len(book.primary_isbn13) = 13 THEN book.primary_isbn13
  ELSE book.primary_isbn10

\* A variant that does not look at seen_isbns
EmitIsbnUnchecked(isbn, acc) ==
  [isbns |-> Append(acc.isbns, isbn), seen |-> acc.seen \cup {isbn}]

\* lines 78-80
EmitIsbn(isbn, acc) ==
  IF isbn \notin acc.seen
  THEN [isbns |-> Append(acc.isbns, isbn), seen |-> acc.seen \cup {isbn}]
  ELSE acc

\* the loop over a list's books (lines 71-80)
RECURSIVE ProcessBooks(_, _, _)
ProcessBooks(list, books, acc) ==
  IF books = <<>> THEN acc
  ELSE ProcessBooks(list, Tail(books),
         IF FirstTimeOnList(list, Head(books))
         THEN EmitIsbn(BookIsbn(Head(books)), acc)
         ELSE acc)

\* the loop over the lists (lines 65-81)
RECURSIVE ProcessLists(_, _, _)
ProcessLists(lists, published_date, acc) ==
  IF lists = <<>> THEN acc
  ELSE LET b == ProcessBooks(Head(lists), Head(lists).books,
                             [isbns |-> <<>>, seen |-> acc.seen])
           list_data == [list_name_encoded |-> Head(lists).list_name_encoded,
                         published_date |-> published_date,
                         isbns |-> b.isbns]
       IN ProcessLists(Tail(lists), published_date,
                       [outputs |-> Append(acc.outputs, list_data),
                        seen |-> b.seen])

\* process_overview_response: the outputs and the seen_isbns it leaves
ProcessOverviewResponse(response, seen) ==
  ProcessLists(response.results.lists, response.results.published_date,
               [outputs |-> <<>>, seen |-> seen])

\* a book's non-empty review links (lines 50-53)
BookReviews(book) ==
  (IF book.book_review_link # "" THEN {book.book_review_link} ELSE {})
    \cup (IF book.sunday_review_link # "" THEN {book.sunday_review_link} ELSE {})

\* lines 46-57 for one book; the reviews list is kept as the set it is built from
ReviewsOfBook(book, acc) ==
  LET isbn    == BookIsbn(book)
      found   == IF isbn \in DOMAIN acc THEN acc[isbn].reviews ELSE {}
      revs    == found \cup BookReviews(book)
  IN IF revs # {}
     THEN DictUpdate(acc, [k \in {isbn} |-> [reviews |-> revs, isbn |-> isbn]])
     ELSE acc

RECURSIVE ReviewsOfBooks(_, _)
ReviewsOfBooks(books, acc) ==
  IF books = <<>> THEN acc
  ELSE ReviewsOfBooks(Tail(books), ReviewsOfBook(Head(books), acc))

RECURSIVE ReviewsOfLists(_, _)
ReviewsOfLists(lists, acc) ==
  IF lists = <<>> THEN acc
  ELSE ReviewsOfLists(Tail(lists), ReviewsOfBooks(Head(lists).books, acc))

\* process_overview_response_reviews
ProcessOverviewResponseReviews(response) ==
  ReviewsOfLists(response.results.lists, EmptyDict)

\* ---- the overview responses of the model ----
ISBN13_A == "9780735211292"
ISBN10_A == "0735211299"
ISBN10_B == "0399592520"
REVIEW_1 == "https://nyt.com/r1"
REVIEW_2 == "https://nyt.com/r2"

\* Book A has a 13-character isbn 13; book B has none ("None"), so its isbn 10 is used
Book(which, weeks, brl, srl) ==
  [primary_isbn13 |-> IF which = "A" THEN ISBN13_A ELSE "None",
   primary_isbn10 |-> IF which = "A" THEN ISBN10_A ELSE ISBN10_B,
   weeks_on_list |-> weeks, book_review_link |-> brl, sunday_review_link |-> srl]

List(updated, books) ==
  [updated |-> updated,
   list_name_encoded |-> IF updated = "MONTHLY" THEN "business-books"
                         ELSE "hardcover-fiction",
   books |-> books]

\* one-book lists of either cadence, the book in its week 0, 1 or 2, no reviews
APPEARANCE_LISTS ==
  {List(u, <<Book(b, w, "", "")>>) : u \in {"WEEKLY", "MONTHLY"},
                                     b \in {"A", "B"}, w \in 0..2}
\* a weekly list of a book past its first week, with every mix of review links
REVIEW_LISTS ==
  {List("WEEKLY", <<Book(b, 2, brl, srl)>>) :
     b \in {"A"}, brl \in {"", REVIEW_1}, srl \in {"", REVIEW_2}}
  \cup {List("WEEKLY", <<Book("B", 2, REVIEW_1, "")>>)}
OTHER_LISTS ==
  { List("", <<Book("A", 1, "", "")>>),
    List("WEEKLY", <<>>),
    List("WEEKLY", <<Book("A", 1, REVIEW_1, ""), Book("A", 1, "", ""),
                     Book("B", 1, "", REVIEW_2)>>) }

\* The lists of a response: any one list, a weekly list followed by a monthly
\* one, or two lists with reviews
ListSeqs ==
  {<<l>> : l \in APPEARANCE_LISTS \cup REVIEW_LISTS \cup OTHER_LISTS}
    \cup {<<l1, l2>> \in APPEARANCE_LISTS \X APPEARANCE_LISTS :
            l1.updated = "WEEKLY" /\ l2.updated = "MONTHLY"}
    \cup {<<l1, l2>> \in REVIEW_LISTS \X REVIEW_LISTS :
            BookIsbn(l1.books[1]) = BookIsbn(l2.books[1])}

\* the full-overview response for the week of published_date
Responses(published_date) ==
  {[results |-> [published_date |-> published_date, lists |-> ls]] : ls \in ListSeqs}

\* history: the review urls of every book of the response, added to acc
RECURSIVE SeenReviews(_, _)
SeenReviews(books, acc) ==
  IF books = <<>> THEN acc
  ELSE LET isbn == BookIsbn(Head(books))
           old  == IF isbn \in DOMAIN acc THEN acc[isbn] ELSE {}
       IN SeenReviews(Tail(books),
            IF BookReviews(Head(books)) = {} THEN acc
            ELSE DictUpdate(acc, [k \in {isbn} |-> old \cup BookReviews(Head(books))]))

RECURSIVE AllBooks(_)
AllBooks(lists) ==
  IF lists = <<>> THEN <<>> ELSE Head(lists).books \o AllBooks(Tail(lists))

\* make_api_request's default for retries (line 11); get_overview passes none
DEFAULT_RETRIES == 10

\* the status codes the API answers with
STATUS_CODES == {200, 401, 429, 500}

\* line 15
IsOk(status_code) == status_code = 200

\* A variant that still retries when no retries are left
MayRetryAtZero(status_code, n) == status_code = 429 /\ n >= 0

\* line 17
MayRetry(status_code, n) == status_code = 429 /\ n > 0

\* run_with_click, lines 100-103.  Dates are day numbers, date_start is day 0.
CollInit ==
  /\ current_date = 0
  /\ date_end \in {-1} \cup {7 * k + r : k \in 0..(MaxWeeks - 1), r \in {0, 6}}
  /\ outputs = <<>>
  /\ reviews = EmptyDict
  /\ seen_isbns = {}
  /\ cpc = "running"
  /\ disk = <<>>
  /\ clast = <<>>
  /\ all_reviews = EmptyDict
  /\ retries = DEFAULT_RETRIES
  /\ issued = 0
  /\ status = 0

\* get_overview -> make_api_request (lines 105, 28, 12-14): the first requests.get
\* of the call
CollRequest ==
  /\ cpc = "running" /\ current_date <= date_end
  /\ status = 0
  /\ issued' = issued + 1
  /\ status' \in STATUS_CODES
  /\ UNCHANGED <<current_date, date_end, outputs, reviews, seen_isbns, cpc, disk,
                 clast, all_reviews, retries>>
  /\ UNCHANGED <<botVars, histVars>>

\* lines 17-19 and 12-14: a 429 with retries left; sleep, then the recursive call
\* with retries - 1 makes the next requests.get
CollRetry ==
  /\ cpc = "running" /\ current_date <= date_end
  /\ status # 0 /\ ~ IsOk(status)
  /\ MayRetry(status, retries)
  /\ retries' = retries - 1
  /\ issued' = issued + 1
  /\ status' \in STATUS_CODES
  /\ UNCHANGED <<current_date, date_end, outputs, reviews, seen_isbns, cpc, disk,
                 clast, all_reviews>>
  /\ UNCHANGED <<botVars, histVars>>

\* a 200 response (lines 15-16): make_api_request returns r.json() to line 105;
\* the next call will start with the default retries again
CollReturn ==
  /\ cpc = "running" /\ current_date <= date_end
  /\ IsOk(status)
  /\ cpc' = "overview"
  /\ retries' = DEFAULT_RETRIES /\ issued' = 0 /\ status' = 0
  /\ UNCHANGED <<current_date, date_end, outputs, reviews, seen_isbns, disk,
                 clast, all_reviews>>
  /\ UNCHANGED <<botVars, histVars>>

\* the rest of one pass of the while loop (lines 106-108) on the returned body
CollWeek ==
  /\ cpc = "overview"
  /\ cpc' = "running"
  /\ UNCHANGED <<retries, issued, status>>
  /\ \E overview \in Responses(current_date) :
       LET r == ProcessOverviewResponse(overview, seen_isbns)
       IN /\ outputs' = outputs \o r.outputs
          /\ seen_isbns' = r.seen
          /\ reviews' = DictUpdate(reviews, ProcessOverviewResponseReviews(overview))
          /\ all_reviews' = SeenReviews(AllBooks(overview.results.lists), all_reviews)
          /\ clast' = <<[overview |-> overview, seen_before |-> seen_isbns,
                         outputs |-> r.outputs]>>
  /\ current_date' = current_date + 7
  /\ UNCHANGED <<date_end, disk>>
  /\ UNCHANGED <<botVars, histVars>>

\* make_api_request raises (lines 21-24): nothing in run_with_click catches it,
\* the run ends and nothing is written
CollRequestFails ==
  /\ cpc = "running" /\ current_date <= date_end
  /\ status # 0 /\ ~ IsOk(status)
  /\ ~ MayRetry(status, retries)
  /\ cpc' = "failed"
  /\ UNCHANGED <<current_date, date_end, outputs, reviews, seen_isbns, disk,
                 clast, all_reviews, retries, issued, status>>
  /\ UNCHANGED <<botVars, histVars>>

\* lines 110-112: both files are written
CollWrite ==
  /\ cpc = "running" /\ current_date > date_end
  /\ disk' = <<[outputs |-> outputs, reviews |-> reviews]>>
  /\ cpc' = "done"
  /\ UNCHANGED <<current_date, date_end, outputs, reviews, seen_isbns, clast,
                 all_reviews, retries, issued, status>>
  /\ UNCHANGED <<botVars, histVars>>

---------------------------------------------------------------------------
(* main.py: the bestseller-history selector *)

Digits == <<"0", "1", "2", "3", "4", "5", "6", "7", "8", "9">>
DigitValue(c) == (CHOOSE i \in 1..10 : Digits[i] = c) - 1

\* int() of a string of digits
RECURSIVE ToInt(_)
ToInt(str) ==
  IF Len(str) = 0 THEN 0
  ELSE 10 * ToInt(SubSeq(str, 1, Len(str) - 1))
         + DigitValue(SubSeq(str, Len(str), Len(str)))

\* the decimal digits of n, zero-padded to width characters (strftime's %Y, %m, %d)
RECURSIVE Padded(_, _)
Padded(n, width) ==
  IF width = 0 THEN ""
  ELSE Padded(n \div 10, width - 1) \o Digits[(n % 10) + 1]

\* strToDate: datetime.fromisoformat of a 'YYYY-MM-DD' string
StrToDate(date_string) ==
  [year  |-> ToInt(SubSeq(date_string, 1, 4)),
   month |-> ToInt(SubSeq(date_string, 6, 7)),
   day   |-> ToInt(SubSeq(date_string, 9, 10))]

\* dateToStr: strftime('%Y-%m-%d')
DateToStr(date) ==
  Padded(date.year, 4) \o "-" \o Padded(date.month, 2) \o "-" \o Padded(date.day, 2)

\* datetime's order
DateBefore(a, b) ==
  \/ a.year < b.year
  \/ a.year = b.year /\ a.month < b.month
  \/ a.year = b.year /\ a.month = b.month /\ a.day < b.day

\* min([a, b]): the first of two equal ones
Min2(a, b) == IF DateBefore(b, a) THEN b ELSE a

\* the loop of get_oldest_bestseller_lists (lines 98-100)
RECURSIVE OldestDate(_, _)
OldestDate(rank_history, oldest_date) ==
  IF rank_history = <<>> THEN oldest_date
  ELSE OldestDate(Tail(rank_history),
                  Min2(oldest_date, StrToDate(Head(rank_history).bestsellers_date)))

\* get_oldest_bestseller_lists (rank_history not empty)
GetOldestBestsellerLists(rank_history) ==
  LET oldest_date == OldestDate(rank_history,
                                StrToDate(rank_history[1].bestsellers_date))
      keep(x)     == x.bestsellers_date = DateToStr(oldest_date)
  IN SelectSeq(rank_history, keep)    \* list(filter(...))

\* get_bestseller_lists_shortest_name (rank_history not empty): the loop of
\* lines 105-106 assigns the minimum to oldest_date, a local it never reads,
\* so shortest_list_name_length stays the length of the first name
GetBestsellerListsShortestName(rank_history) ==
  LET shortest_list_name_length == Len(rank_history[1].list_name)
      keep(x) == Len(x.list_name) = shortest_list_name_length
  IN SelectSeq(rank_history, keep)    \* list(filter(...))

\* get_isbns
RECURSIVE GetIsbns(_)
GetIsbns(pairs) ==
  IF pairs = <<>> THEN <<>>
  ELSE (IF Len(Head(pairs).isbn10) = 10 THEN <<Head(pairs).isbn10>> ELSE <<>>)
         \o (IF Len(Head(pairs).isbn13) = 13 THEN <<Head(pairs).isbn13>> ELSE <<>>)
         \o GetIsbns(Tail(pairs))

\* choose_bestseller_list; indexing an empty sequence raises IndexError
ChooseBestsellerList(results) ==
  LET rank_history == results[1].ranks_history
  IN IF rank_history = <<>>
     THEN [raised |-> "IndexError", entry |-> <<>>]           \* rank_history[0]
     ELSE LET oldest_lists == GetOldestBestsellerLists(rank_history)
          IN IF oldest_lists = <<>>
             THEN [raised |-> "IndexError", entry |-> <<>>]   \* rank_history[0]
             ELSE [raised |-> "none",
                   entry |-> GetBestsellerListsShortestName(oldest_lists)[1]]

\* process_history_response: None, the out dict, or the exception raised
ProcessHistoryResponse(response) ==
  IF Len(response.results) = 0
  THEN [returned |-> "None", raised |-> "none", out |-> <<>>, chosen |-> <<>>]
  ELSE LET selected_list == ChooseBestsellerList(response.results)
       IN IF selected_list.raised # "none"
          THEN [returned |-> "", raised |-> selected_list.raised, out |-> <<>>,
                chosen |-> <<>>]
          ELSE [returned |-> "out", raised |-> "none",
                out |-> [alternative_isbns |-> GetIsbns(response.results[1].isbns),
                         primary_isbn |-> selected_list.entry.primary_isbn13,
                         list_name |-> selected_list.entry.list_name,
                         bestsellers_date |-> selected_list.entry.bestsellers_date],
                chosen |-> <<selected_list.entry>>]

\* ---- the history responses of the model ----
BESTSELLERS_DATES == {"2019-12-28", "2020-01-04", "2020-02-01"}
HISTORY_LIST_NAMES == {"Hardcover Fiction", "Paperback Fiction",
                       "Combined Print and E-Book Fiction"}
RankEntries ==
  {[bestsellers_date |-> d, list_name |-> n, primary_isbn13 |-> ISBN13_A] :
     d \in BESTSELLERS_DATES, n \in HISTORY_LIST_NAMES}
RankHistories == UNION {[1..k -> RankEntries] : k \in 0..MaxHistory}
HistoryResponses ==
  {[results |-> <<>>]}
    \cup {[results |-> <<[ranks_history |-> h,
                          isbns |-> <<[isbn10 |-> "0385544189",
                                       isbn13 |-> "9780385544184"],
                                      [isbn10 |-> "None",
                                       isbn13 |-> "9780525639367"]>>]>>] :
            h \in RankHistories}

\* __main__, line 125: a history response has arrived
HistInit ==
  /\ response_json \in HistoryResponses
  /\ selected = <<>>
  /\ hpc = "fetched"

\* __main__, line 126: result = process_history_response(history_json)
HistProcess ==
  /\ hpc = "fetched"
  /\ selected' = <<ProcessHistoryResponse(response_json)>>
  /\ hpc' = "processed"
  /\ UNCHANGED response_json
  /\ UNCHANGED <<botVars, collVars>>

---------------------------------------------------------------------------
\* The scripts are separate programs: while one runs the others do not exist
BotsIdle ==
  /\ job = "" /\ dry_run = FALSE /\ todo = 0 /\ new_tags = <<>> /\ works = <<>>
  /\ job_results = <<>> /\ result_file = <<>> /\ pc = "idle" /\ last = Last0
CollIdle ==
  /\ current_date = 0 /\ date_end = 0 /\ outputs = <<>> /\ reviews = <<>>
  /\ seen_isbns = {} /\ cpc = "idle" /\ disk = <<>> /\ clast = <<>>
  /\ all_reviews = <<>> /\ retries = 0 /\ issued = 0 /\ status = 0
HistIdle == response_json = <<>> /\ selected = <<>> /\ hpc = "idle"

TagBotInit    == TagInit /\ CollIdle /\ HistIdle
ReviewBotInit == ReviewInit /\ CollIdle /\ HistIdle

TagNext ==
  \/ TagStartGroup
  \/ TagProcessIsbn
  \/ TagFinish
  \/ SigintOutsideTry

ReviewNext ==
  \/ ReviewProcessRecord
  \/ ReviewFinish
  \/ SigintOutsideTry

\* The tag bot alone, the review-link bot alone, and either of them
SpecTag    == TagBotInit /\ [][TagNext]_vars
SpecReview == ReviewBotInit /\ [][ReviewNext]_vars
SpecBots   == (TagBotInit \/ ReviewBotInit) /\ [][TagNext \/ ReviewNext]_vars

CollectorInit == CollInit /\ BotsIdle /\ HistIdle
CollectorNext ==
  \/ CollRequest
  \/ CollRetry
  \/ CollReturn
  \/ CollWeek
  \/ CollRequestFails
  \/ CollWrite
SpecCollector == CollectorInit /\ [][CollectorNext]_vars
\* The script is one sequential process: it keeps executing until it ends.
\* Runs of one or two weeks: every make_api_request call starts afresh with
\* the default retries, whatever the weeks before it held.
ShortRunInit == CollectorInit /\ date_end < 2 * 7
SpecCollectorFair ==
  ShortRunInit /\ [][CollectorNext]_vars /\ WF_vars(CollectorNext)

HistoryInit == HistInit /\ BotsIdle /\ CollIdle
HistoryNext == HistProcess
SpecHistory == HistoryInit /\ [][HistoryNext]_vars

---------------------------------------------------------------------------
(* Properties of the history selector *)

\* The entries of h with the earliest date
EarliestEntries(h) ==
  {i \in 1..Len(h) :
     \A j \in 1..Len(h) :
        ~DateBefore(StrToDate(h[j].bestsellers_date), StrToDate(h[i].bestsellers_date))}

\* C4: for a non-empty ranking history the chosen entry is the first of the
\* entries that have the earliest date and, among those, the shortest list_name.
C4_FirstOldestShortest ==
  ( /\ hpc = "processed"
    /\ Len(response_json.results) > 0
    /\ response_json.results[1].ranks_history # <<>> )
  => LET h    == response_json.results[1].ranks_history
         best == {i \in EarliestEntries(h) :
                    \A j \in EarliestEntries(h) :
                       Len(h[i].list_name) <= Len(h[j].list_name)}
         k    == CHOOSE i \in best : \A j \in best : i <= j
     IN /\ selected[1].raised = "none"
        /\ selected[1].chosen = <<h[k]>>

---------------------------------------------------------------------------
(* Properties of the collector *)

\* The claim's first-appearance predicate
IsCandidate(list, book) ==
  \/ list.updated = "WEEKLY" /\ book.weeks_on_list = 1
  \/ list.updated = "MONTHLY" /\ book.weeks_on_list = 0

SeqToSet(q) == {q[i] : i \in 1..Len(q)}

\* C5: in the response just processed, an ISBN is emitted under a list only
\* for a book of that list that is a first-appearance candidate (WEEKLY and
\* weeks_on_list = 1, or MONTHLY and weeks_on_list = 0), and every candidate
\* whose ISBN was not in the seen set when its book was reached is emitted
\* under its list (so it is under its list or, seen by then, under an earlier
\* list of the response).
C5_CandidatesEmitted ==
  clast # <<>> =>
    LET lists == clast[1].overview.results.lists
        out   == clast[1].outputs
    IN /\ Len(out) = Len(lists)
       /\ \A li \in 1..Len(lists) :
            /\ \A x \in SeqToSet(out[li].isbns) :
                 \E bi \in 1..Len(lists[li].books) :
                    /\ IsCandidate(lists[li], lists[li].books[bi])
                    /\ BookIsbn(lists[li].books[bi]) = x
            /\ \A bi \in 1..Len(lists[li].books) :
                 ( /\ IsCandidate(lists[li], lists[li].books[bi])
                   /\ BookIsbn(lists[li].books[bi]) \notin clast[1].seen_before
                   /\ \A lj \in 1..(li - 1) :
                        BookIsbn(lists[li].books[bi]) \notin SeqToSet(out[lj].isbns) )
                 => BookIsbn(lists[li].books[bi]) \in SeqToSet(out[li].isbns)

\* C5 witness: a weekly book in week 1 is emitted, a monthly book in week 1 is not
C5_Witness ==
  /\ clast # <<>>
  /\ Len(clast[1].overview.results.lists) = 2
  /\ clast[1].overview.results.lists[1].updated = "WEEKLY"
  /\ clast[1].overview.results.lists[1].books[1].weeks_on_list = 1
  /\ clast[1].overview.results.lists[2].updated = "MONTHLY"
  /\ clast[1].overview.results.lists[2].books[1].weeks_on_list = 1
  /\ clast[1].outputs[1].isbns = <<ISBN13_A>>
  /\ clast[1].outputs[2].isbns = <<>>

RECURSIVE EmittedIsbns(_)
EmittedIsbns(outs) ==
  IF outs = <<>> THEN <<>> ELSE Head(outs).isbns \o EmittedIsbns(Tail(outs))

\* C6: over the run no ISBN occurs twice in the emitted isbns of all lists and
\* weeks, the seen set is the set of the ISBNs emitted so far, and it has
\* only grown since the last response was processed.
C6_EmittedOnce ==
  cpc # "idle" =>
    LET em == EmittedIsbns(outputs)
    IN /\ \A i, j \in 1..Len(em) : em[i] = em[j] => i = j
       /\ seen_isbns = SeqToSet(em)
       /\ clast # <<>> => clast[1].seen_before \subseteq seen_isbns

\* C6 witness: a book that is a first-appearance candidate again in a later
\* week, its ISBN emitted in an earlier one
C6_Witness ==
  /\ clast # <<>>
  /\ \E li \in 1..Len(clast[1].overview.results.lists) :
       LET l == clast[1].overview.results.lists[li]
       IN /\ l.books # <<>>
          /\ IsCandidate(l, l.books[1])
          /\ BookIsbn(l.books[1]) \in clast[1].seen_before
          /\ clast[1].outputs[li].isbns = <<>>
  /\ Len(EmittedIsbns(outputs)) >= 1

\* C7: the reviews written at the end of the run map each ISBN to all the
\* review urls seen for it in any list of any week of the run.
C7_ReviewsUnion ==
  cpc = "done" =>
    /\ DOMAIN disk[1].reviews = DOMAIN all_reviews
    /\ \A isbn \in DOMAIN all_reviews :
         disk[1].reviews[isbn].reviews = all_reviews[isbn]

---------------------------------------------------------------------------
(* Properties of the tagger bots *)

\* The iteration recorded in last looked a work up and decided on the merge
MergeDecided == last.kind = "item" /\ last.t.path \in {"need", "exists"}

HasNytTag(work) ==
  /\ work.subjects.present
  /\ \E i \in 1..Len(work.subjects.value) :
       \/ StartsWith(work.subjects.value[i], "nyt:")
       \/ StartsWith(work.subjects.value[i], "New York Times bestseller")

\* C1: the tag bot leaves a work that already carries a subject starting with
\* 'nyt:' or 'New York Times bestseller' as it is: the subjects are unchanged,
\* nothing is saved, tags_added stays and (the iteration not being cut short
\* by an interrupt) tags_already_exist grows by one; and a work the bot has
\* just tagged is such a work, so a second merge changes nothing.
C1_TaggedWorkLeftAlone ==
  (job = "AddNytBestseller" /\ MergeDecided) =>
    /\ HasNytTag(last.t.before) =>
         /\ last.t.after = last.t.before
         /\ last.t.calls = <<>>
         /\ works[last.t.before.olid] = last.t.before
         /\ last.t.results.tags_added = last.results_before.tags_added
         /\ last.t.exc = "none" =>
              last.t.results.tags_already_exist
                = last.results_before.tags_already_exist + 1
    /\ last.t.path = "need" =>
         /\ ~HasNytTag(last.t.before)
         /\ HasNytTag(last.t.after)
         /\ ~NeedToAddNytBestsellerTag(last.t.after)

\* C1 witness: a work tagged and saved earlier in the run is processed again
C1_Witness ==
  /\ job = "AddNytBestseller" /\ MergeDecided /\ ~dry_run
  /\ last.t.path = "exists" /\ last.t.exc = "none"
  /\ last.results_before.tags_added >= 1
  /\ last.t.before.subjects.value[Len(last.t.before.subjects.value)]
       = NYT_TAG_BESTSELLER

LinksOf(work) == IF work.links.present THEN work.links.value ELSE <<>>

\* The url with its scheme changed from https:// to http://
HttpCounterpart(url) ==
  IF StartsWith(url, "https://")
  THEN "http://" \o SubSeq(url, Len("https://") + 1, Len(url))
  ELSE url

\* The review-link bot's iteration recorded in last reached the link merge
LinkMergeRan == job = "AddNytReviewJob" /\ last.kind = "item" /\ last.t.merged

\* C2: when no existing link's url equals the candidate or is its http://
\* counterpart, the link merge adds exactly one link, the last one, made of
\* the candidate url, the fixed title and the fixed type.
C2_NewLinkAppended ==
  ( /\ LinkMergeRan
    /\ \A i \in 1..Len(LinksOf(last.t.before)) :
         /\ GetUrl(LinksOf(last.t.before)[i], "") # last.t.url
         /\ GetUrl(LinksOf(last.t.before)[i], "") # HttpCounterpart(last.t.url) )
  => /\ Len(LinksOf(last.t.after)) = Len(LinksOf(last.t.before)) + 1
     /\ LinksOf(last.t.after)[Len(LinksOf(last.t.after))]
          = [url |-> last.t.url, title |-> "New York Times review",
             type |-> [key |-> "/type/link"]]

\* Positions of the links whose url is u
UrlHits(ls, u) == {i \in 1..Len(ls) : "url" \in DOMAIN ls[i] /\ ls[i].url = u}

C8_FailureIsolated ==
  ( \/ last.kind = "malformed"
    \/ (last.kind = "item" /\ last.t.exc = "Exception") )
  => /\ pc # "crashed"
     /\ job_results.isbns_failed = last.results_before.isbns_failed + 1

\* C9: a run that has terminated, normally or by an interrupt, has written
\* its result file with the counters accumulated so far.
C9_ResultFileWritten ==
  pc \in {"done", "interrupted"} => result_file = <<job_results>>

\* C10: with dry_run set no item issues a mutating network call (a save of a
\* work or an import request) and the catalog is never changed.
C10_DryRunIssuesNoCall ==
  (dry_run /\ last.kind = "item") => last.t.calls = <<>>

---------------------------------------------------------------------------
(* Properties of the collector's make_api_request *)

\* While a call is in progress the requests made and the retries left add up
\* to the default plus one, so a call makes at most DEFAULT_RETRIES + 1 = 11
\* requests; a failed run has written no file.
C11_RequestsBounded ==
  /\ retries \in 0..DEFAULT_RETRIES
  /\ issued <= DEFAULT_RETRIES + 1
  /\ issued <= 11
  /\ (cpc \in {"running", "failed"} /\ issued > 0)
       => issued + retries = DEFAULT_RETRIES + 1
  /\ cpc = "failed" => disk = <<>>

\* One step of a call: a request after the first is made only on a 429 with
\* retries left; the body is returned only on a 200, and on every 200;
\* the call raises only on a status other than 200 that is no 429 with
\* retries left; and a failed run stays failed, with nothing written.
C11_Step ==
  /\ (issued' > issued /\ issued > 0) => (status = 429 /\ retries > 0)
  /\ (issued > 0 /\ issued' = 0) => (status = 200 /\ cpc' = "overview")
  /\ status = 200 => (issued' = 0 /\ cpc' = "overview")
  /\ (status \notin {0, 200} /\ ~(status = 429 /\ retries > 0))
       => (cpc' = "failed" /\ disk' = <<>>)
  /\ cpc = "failed" => UNCHANGED vars

\* C11: one make_api_request call terminates (it returns or raises) after at
\* most retries + 1 requests, 11 with the default; it makes a further
\* request only after a 429 while retries remain, returns on the first 200,
\* and raises on any other status or on a 429 with no retries left, which
\* ends the collection run with no output file written.
C11_BoundedRetry ==
  /\ []C11_RequestsBounded
  /\ [][C11_Step]_vars
  /\ (issued > 0) ~> (issued = 0 \/ cpc = "failed")

\* C11 witness: the eleventh request of a call was answered 429 and the run
\* failed without writing a file
C11_Witness ==
  /\ cpc = "failed" /\ issued = DEFAULT_RETRIES + 1 /\ status = 429
  /\ retries = 0 /\ disk = <<>>

---------------------------------------------------------------------------
(* Properties of the bots' counters *)

\* The network calls of the last item that failed
FailedCalls == {i \in 1..Len(last.t.calls) : last.t.calls[i].failed}

\* C12: an item during which a network call (a save of a work, an import
\* request) failed is counted in isbns_failed; in particular an ISBN whose
\* import request failed is not tallied in books_imported without being
\* counted as failed.
C12_CaughtFailureCounted ==
  (last.kind = "item" /\ FailedCalls # {}) =>
    /\ job_results.isbns_failed = last.results_before.isbns_failed + 1
    /\ job_results.books_imported = last.results_before.books_imported

---------------------------------------------------------------------------
(* The history selector on an empty history *)

\* The response has no ranking history: no results, or a first result whose
\* ranks_history is empty
EmptyHistory(response) ==
  \/ Len(response.results) = 0
  \/ Len(response.results[1].ranks_history) = 0

\* C13: for a history response with an empty ranking history (no results, or
\* a first result with an empty ranks_history) process_history_response
\* returns None and raises nothing: it never indexes an empty sequence.
C13_EmptyHistorySignalled ==
  (hpc = "processed" /\ EmptyHistory(response_json)) =>
    /\ selected[1].returned = "None"
    /\ selected[1].raised = "none"

---------------------------------------------------------------------------
(* The order of merge and save *)

\* The saves of a work the last item issued
SaveCalls == {i \in 1..Len(last.t.calls) : last.t.calls[i].op = "save"}

\* The last item incremented the counter of merged works
MergeCounted ==
  IF job = "AddNytReviewJob"
  THEN job_results.links_added = last.results_before.links_added + 1
  ELSE job_results.tags_added = last.results_before.tags_added + 1

\* The record holds what the merge was to add: the review link, or the two
\* tags of a bestseller group appended to the subjects the work had
HoldsAddition(work) ==
  IF job = "AddNytReviewJob"
  THEN UrlHits(LinksOf(work), last.t.url) # {}
  ELSE /\ work.subjects.present
       /\ \E n \in LIST_NAMES, d \in PUBLISHED_DATES :
            work.subjects.value
              = (IF last.t.before.subjects.present
                 THEN last.t.before.subjects.value ELSE <<>>) \o NewTags(n, d)

\* C14: without dry_run, every save an item issues for a found work carries
\* the record as the merge left it (no save is issued before the merge), and
\* whenever links_added or tags_added is incremented a save was issued whose
\* content holds the added link or tags.
C14_SaveCarriesMerge ==
  (~dry_run /\ last.kind = "item" /\ last.t.merged) =>
    /\ \A i \in SaveCalls : last.t.calls[i].body = last.t.after
    /\ MergeCounted =>
         \E i \in SaveCalls : /\ last.t.calls[i].body = last.t.after
                              /\ HoldsAddition(last.t.calls[i].body)

---------------------------------------------------------------------------
(* The tag bot's counters *)

\* The four outcome counters
OUTCOMES == {"books_imported", "tags_added", "tags_already_exist", "isbns_failed"}

\* The last loop iteration ran to its end (it was not cut short by SystemExit)
IterationCompleted == last.kind = "item" /\ last.t.exc # "SystemExit"

\* C15: in the tag bot, after every completed loop iteration
\* total_books_processed = books_imported + tags_added + tags_already_exist
\* + isbns_failed, the iteration has incremented exactly one of these four
\* counters and total_books_processed by one, books_imported is the length
\* of books_imported_isbns, and at normal completion total_books_processed
\* = total_books_to_process.
C15_CountersAddUp ==
  /\ IterationCompleted =>
       /\ job_results.total_books_processed
            = job_results.books_imported + job_results.tags_added
              + job_results.tags_already_exist + job_results.isbns_failed
       /\ job_results.books_imported = Len(job_results.books_imported_isbns)
       /\ job_results.total_books_processed
            = last.results_before.total_books_processed + 1
       /\ \E c \in OUTCOMES :
            /\ job_results[c] = last.results_before[c] + 1
            /\ \A o \in OUTCOMES \ {c} : job_results[o] = last.results_before[o]
  /\ pc = "done" =>
       job_results.total_books_processed = job_results.total_books_to_process

\* C15 witness: a run of three ISBNs completed normally with one import, one
\* work tagged and one failure
C15_Witness ==
  /\ pc = "done" /\ IterationCompleted
  /\ job_results.total_books_to_process = 3
  /\ job_results.books_imported = 1
  /\ job_results.tags_added = 1
  /\ job_results.isbns_failed = 1

=============================================================================
